---- MODULE Spec2Model ----
(***************************************************************************)
(* Model of scripts/fix-md040.py: the MD040 fence tracker and rewriter.    *)
(* A file is a sequence of characters on disk; fix_md040_properly reads it *)
(* into lines, runs the inside/outside toggle over them one line per step, *)
(* and rewrites the file when at least one fix was made; main runs it over *)
(* the argument list and turns the results into the exit code.             *)
(***************************************************************************)
EXTENDS Integers, Sequences, FiniteSets, TLC

(* ---------------- bounds of the model ---------------- *)
\* longest document (in lines) of the single-file runs
MaxLines == 3
\* longest argument list of the batch runs
MaxArgs == 3

(* ---------------- characters ---------------- *)
\* the backtick character
BT == "BT"
SP == " "
LF == "LF"
CR == "CR"
\* a byte that is not valid UTF-8
BAD == "xFF"

\* the characters of [a-zA-Z0-9_+-] that occur in the model's documents
TagChars == {"a", "p", "l", "i", "n", "t", "e", "x", "0", "_", "+", "-"}

\* what str.rstrip() strips and what \s matches, among the model's characters
\* (CR never reaches a line: reading translates it)
IsSpace(c) == c \in {SP, LF, CR}

Fence == <<BT, BT, BT>>

(* ---------------- text-mode file I/O ---------------- *)
\* open(filename, 'r', encoding='utf-8'): decoding fails on an invalid byte
Decodable(bytes) == \A i \in 1..Len(bytes) : bytes[i] # BAD

\* newline=None on reading: "\r\n" and a lone "\r" both become "\n"
RECURSIVE TranslateNewlines(_)
TranslateNewlines(s) ==
    IF s = <<>> THEN <<>>
    ELSE IF Head(s) = CR
         THEN IF Len(s) > 1 /\ s[2] = LF
              THEN <<LF>> \o TranslateNewlines(Tail(Tail(s)))
              ELSE <<LF>> \o TranslateNewlines(Tail(s))
         ELSE <<Head(s)>> \o TranslateNewlines(Tail(s))

\* split after every "\n", keeping it; a last line may be unterminated
RECURSIVE SplitLines(_, _)
SplitLines(s, cur) ==
    IF s = <<>> THEN (IF cur = <<>> THEN <<>> ELSE <<cur>>)
    ELSE IF Head(s) = LF
         THEN <<Append(cur, LF)>> \o SplitLines(Tail(s), <<>>)
         ELSE SplitLines(Tail(s), Append(cur, Head(s)))

\* f.readlines() of a decodable file
ReadLines(bytes) == SplitLines(TranslateNewlines(bytes), <<>>)

\* os.linesep of the platform the script's shebang targets
OsLinesep == <<LF>>

\* newline=None on writing: every "\n" is written as os.linesep
RECURSIVE EncodeNewlines(_)
EncodeNewlines(s) ==
    IF s = <<>> THEN <<>>
    ELSE (IF Head(s) = LF THEN OsLinesep ELSE <<Head(s)>>) \o EncodeNewlines(Tail(s))

RECURSIVE Concat(_)
Concat(ls) == IF ls = <<>> THEN <<>> ELSE Head(ls) \o Concat(Tail(ls))

\* f.writelines(result_lines)
WriteLines(ls) == EncodeNewlines(Concat(ls))

(* ---------------- line classification ---------------- *)
\* line.rstrip()
RECURSIVE RStrip(_)
RStrip(s) ==
    IF s = <<>> THEN <<>>
    ELSE IF IsSpace(s[Len(s)]) THEN RStrip(SubSeq(s, 1, Len(s) - 1))
         ELSE s

StartsWithFence(s) == Len(s) >= 3 /\ SubSeq(s, 1, 3) = Fence

\* re.match of the bare-fence pattern (3 backticks, then \s*, then $)
IsBareFence(ls) ==
    /\ StartsWithFence(ls)
    /\ \A i \in 4..Len(ls) : IsSpace(ls[i])

\* re.match of the tagged-fence pattern (3 backticks, [a-zA-Z0-9_+-]+, .*$)
IsTaggedFence(ls) ==
    /\ StartsWithFence(ls)
    /\ Len(ls) >= 4
    /\ ls[4] \in TagChars
    /\ \A i \in 5..Len(ls) : ls[i] = LF => i = Len(ls)

\* the slip of writing the tag after a blank, which no longer reads as a tag
PlaintextLine_spaced ==
    Fence \o <<SP, "p", "l", "a", "i", "n", "t", "e", "x", "t", LF>>

\* the literal appended for an opening fence: 3 backticks, plaintext, \n
PlaintextLine == Fence \o <<"p", "l", "a", "i", "n", "t", "e", "x", "t", LF>>


\* the slip of numbering the lines from 0, as a bare enumerate(lines) does
FirstLineNum_zero == 1 - 1

\* enumerate(lines, 1): the number given to the first line
FirstLineNum == 1

\* the slip of starting a pass with the flag set
InitialInside_set == TRUE

\* inside_code_block = False at the start of every pass
InitialInside == FALSE
\* the slip of not setting the flag at an opening fence
AfterOpening_outside == FALSE

\* inside_code_block after a bare fence met outside a block
AfterOpening == TRUE
\* the slip of leaving the flag set at a closing fence
AfterClosing_stuck == TRUE

\* inside_code_block after a bare fence met inside a block
AfterClosing == FALSE
\* the slip of not setting the flag at a tagged fence
AfterTagged_outside == FALSE

\* inside_code_block after a tagged fence
AfterTagged == TRUE

\* the slip of appending the bare fence itself
EmitOpening_keep(rl, line) == Append(rl, line)

\* result_lines.append of the opening literal
EmitOpening(rl, line) == Append(rl, PlaintextLine)
\* the slip of appending nothing in the closing branch
EmitClosing_drop(rl, line) == rl

\* result_lines.append(line) of the closing branch
EmitClosing(rl, line) == Append(rl, line)
\* result_lines.append(line) of the tagged branch
EmitTagged(rl, line) == Append(rl, line)
\* the slip of appending line_stripped instead of line
EmitRegular_stripped(rl, line) == Append(rl, RStrip(line))

\* result_lines.append(line) of the regular branch
EmitRegular(rl, line) == Append(rl, line)

\* the slip of writing the file back whatever the count
NeedsWrite_always(n) == n >= 0

\* if fixes_made > 0
NeedsWrite(n) == n > 0

\* the slip of success = fix_md040_properly(filename): the last file decides
Downgrade_last(flag, ok) == ok

\* if not fix_md040_properly(filename): success = False
Downgrade(flag, ok) == IF ~ok THEN FALSE ELSE flag

(* ---------------- the documents and batches explored ---------------- *)
Files == {"a.md", "b.md"}

\* line bodies: empty, text, bare fence, bare fence with trailing blank,
\* tagged fence, fence followed by blank and text, an undecodable byte
Bodies ==
    { <<>>, <<"a">>, Fence, Fence \o <<SP>>, Fence \o <<"a">>,
      Fence \o <<SP, "a">>, <<BAD>> }

Eols == { <<LF>>, <<CR, LF>> }

RECURSIVE Join(_, _, _)
Join(bs, eol, final) ==
    IF bs = <<>> THEN <<>>
    ELSE IF Len(bs) = 1 THEN Head(bs) \o (IF final THEN eol ELSE <<>>)
         ELSE Head(bs) \o eol \o Join(Tail(bs), eol, final)

\* every document of at most MaxLines lines over Bodies, with either line
\* ending, its last line terminated or not
RichDocs ==
    { Join(bs, eol, final) :
        bs \in UNION { [1..n -> Bodies] : n \in 0..MaxLines },
        eol \in Eols, final \in BOOLEAN }

\* the documents of the batch runs: a clean one, one with an untagged block,
\* a lone unterminated bare fence, a CRLF one and an undecodable one
BatchDocs ==
    { Join(<<Fence \o <<"a">>, <<"a">>, Fence>>, <<LF>>, TRUE),
      Join(<<Fence, <<"a">>, Fence>>, <<LF>>, TRUE),
      Fence,
      Join(<<Fence, Fence>>, <<CR, LF>>, TRUE),
      <<BAD>> }

\* what the file system lets the process do with a path
Conds == {"rw", "readonly", "unreadable", "full", "missing"}

ArgLists == UNION { [1..n -> Files] : n \in 1..MaxArgs }

NoPrev == [st |-> "none", out |-> <<>>]

Msg(k, f, n) == [k |-> k, f |-> f, n |-> n]

(* ---------------- state ---------------- *)
VARIABLES
    disk,               \* file name -> bytes of the file
    cond,               \* file name -> element of Conds
    args,               \* args.files
    pc,                 \* "main", "read", "loop", "done", "crashed"
    idx,                \* how many of args the for loop of main has taken
    success,            \* main's success flag
    exit_code,          \* -1 while running, then the process exit status
    lines,              \* locals of fix_md040_properly
    line_num,
    inside_code_block,
    fixes_made,
    result_lines,
    stdout,             \* the messages printed so far (stdout and stderr)
    wopens,             \* file name -> times it was opened for writing
    failures,           \* <<argument position, kind>> of every I/O failure
    prev                \* file name -> outcome of the last finished pass on it

vars ==
    <<disk, cond, args, pc, idx, success, exit_code, lines, line_num,
      inside_code_block, fixes_made, result_lines, stdout, wopens, failures, prev>>

locals == <<lines, line_num, inside_code_block, fixes_made, result_lines>>

filename == args[idx]

\* position in lines of the line the for loop takes next
CurIndex == line_num - FirstLineNum + 1

\* the slip of leaving the loop after the first line
LoopFinished_early == pc = "loop" /\ (CurIndex > Len(lines) \/ CurIndex > 1)

\* the for loop has taken every line
LoopFinished == pc = "loop" /\ CurIndex > Len(lines)

InitCommon ==
    /\ pc = "main"
    /\ idx = 0
    /\ success = TRUE
    /\ exit_code = -1
    /\ lines = <<>>
    /\ line_num = FirstLineNum
    /\ inside_code_block = InitialInside
    /\ fixes_made = 0
    /\ result_lines = <<>>
    /\ stdout = <<Msg("banner", "", 0)>>
    /\ wopens = [f \in Files |-> 0]
    /\ failures = {}
    /\ prev = [f \in Files |-> NoPrev]

\* one writable file holding any document, processed twice in one run
InitDoc ==
    /\ \E d \in RichDocs :
         disk = [f \in Files |-> IF f = "a.md" THEN d ELSE <<>>]
    /\ cond = [f \in Files |-> IF f = "a.md" THEN "rw" ELSE "missing"]
    /\ args = <<"a.md", "a.md">>

\* any argument list over two files in any I/O condition
InitBatch ==
    /\ cond \in [Files -> Conds]
    /\ disk \in [Files -> BatchDocs \cup {<<>>}]
    /\ \A f \in Files : (cond[f] = "missing") <=> (disk[f] = <<>>)
    /\ args \in ArgLists

Init == InitCommon /\ (InitDoc \/ InitBatch)

(* ---------------- main ---------------- *)
\* for filename in args.files: print("Processing: ...")
MainNext ==
    /\ pc = "main"
    /\ idx < Len(args)
    /\ idx' = idx + 1
    /\ stdout' = Append(stdout, Msg("processing", args[idx + 1], 0))
    /\ pc' = "read"
    /\ UNCHANGED <<disk, cond, args, success, exit_code, locals, wopens, failures, prev>>

\* after the loop: the summary line, and sys.exit(1) when success is False
MainExit ==
    /\ pc = "main"
    /\ idx = Len(args)
    /\ exit_code' = IF success THEN 0 ELSE 1
    /\ stdout' = Append(stdout, Msg(IF success THEN "complete" ELSE "incomplete", "", 0))
    /\ pc' = "done"
    /\ UNCHANGED <<disk, cond, args, idx, success, locals, wopens, failures, prev>>

\* return of fix_md040_properly to main: its locals are gone
Return(ok) ==
    /\ success' = Downgrade(success, ok)
    /\ pc' = "main"
    /\ lines' = <<>>
    /\ line_num' = FirstLineNum
    /\ inside_code_block' = InitialInside
    /\ fixes_made' = 0
    /\ result_lines' = <<>>

(* ---------------- fix_md040_properly ---------------- *)
CanOpenForRead(f) == cond[f] \notin {"missing", "unreadable"}

\* open and readlines succeed; the locals are initialised
ReadOk ==
    /\ pc = "read"
    /\ CanOpenForRead(filename)
    /\ Decodable(disk[filename])
    /\ lines' = ReadLines(disk[filename])
    /\ inside_code_block' = InitialInside
    /\ fixes_made' = 0
    /\ result_lines' = <<>>
    /\ line_num' = FirstLineNum
    /\ stdout' = Append(stdout, Msg("analyzing", filename, 0))
    /\ pc' = "loop"
    /\ UNCHANGED <<disk, cond, args, idx, success, exit_code, wopens, failures, prev>>

\* open raises IOError: the message, return False
ReadIOError ==
    /\ pc = "read"
    /\ ~CanOpenForRead(filename)
    /\ stdout' = Append(stdout, Msg("error_reading", filename, 0))
    /\ failures' = failures \cup {<<idx, "read">>}
    /\ prev' = [prev EXCEPT ![filename] = [st |-> "failed", out |-> <<>>]]
    /\ Return(FALSE)
    /\ UNCHANGED <<disk, cond, args, idx, exit_code, wopens>>

\* readlines raises UnicodeDecodeError, a ValueError that except IOError
\* does not catch: it leaves main and the interpreter exits with status 1
ReadDecodeError ==
    /\ pc = "read"
    /\ CanOpenForRead(filename)
    /\ ~Decodable(disk[filename])
    /\ failures' = failures \cup {<<idx, "decode">>}
    /\ prev' = [prev EXCEPT ![filename] = [st |-> "failed", out |-> <<>>]]
    /\ stdout' = Append(stdout, Msg("traceback", filename, 0))
    /\ exit_code' = 1
    /\ pc' = "crashed"
    /\ UNCHANGED <<disk, cond, args, idx, success, locals, wopens>>

\* one iteration of for line_num, line in enumerate(lines, 1)
LineStep ==
    /\ pc = "loop"
    /\ CurIndex <= Len(lines)
    /\ LET line == lines[CurIndex]
           line_stripped == RStrip(line)
       IN  IF IsBareFence(line_stripped)
           THEN IF ~inside_code_block
                THEN /\ result_lines' = EmitOpening(result_lines, line)
                     /\ stdout' = Append(stdout, Msg("line", filename, line_num))
                     /\ fixes_made' = fixes_made + 1
                     /\ inside_code_block' = AfterOpening
                ELSE /\ result_lines' = EmitClosing(result_lines, line)
                     /\ inside_code_block' = AfterClosing
                     /\ UNCHANGED <<stdout, fixes_made>>
           ELSE IF IsTaggedFence(line_stripped)
                THEN /\ result_lines' = EmitTagged(result_lines, line)
                     /\ inside_code_block' = AfterTagged
                     /\ UNCHANGED <<stdout, fixes_made>>
                ELSE /\ result_lines' = EmitRegular(result_lines, line)
                     /\ UNCHANGED <<stdout, fixes_made, inside_code_block>>
    /\ line_num' = line_num + 1
    /\ UNCHANGED <<disk, cond, args, pc, idx, success, exit_code, lines, wopens, failures, prev>>

\* fixes were made and open(filename, 'w') and writelines succeed
WriteOk ==
    /\ LoopFinished
    /\ NeedsWrite(fixes_made)
    /\ cond[filename] = "rw"
    /\ disk' = [disk EXCEPT ![filename] = WriteLines(result_lines)]
    /\ wopens' = [wopens EXCEPT ![filename] = @ + 1]
    /\ stdout' = Append(stdout, Msg("fixed", filename, fixes_made))
    /\ prev' = [prev EXCEPT ![filename] = [st |-> "ok", out |-> result_lines]]
    /\ Return(TRUE)
    /\ UNCHANGED <<cond, args, idx, exit_code, failures>>

\* fixes were made and open(filename, 'w') raises IOError
WriteOpenError ==
    /\ LoopFinished
    /\ NeedsWrite(fixes_made)
    /\ cond[filename] = "readonly"
    /\ stdout' = Append(stdout, Msg("error_writing", filename, 0))
    /\ failures' = failures \cup {<<idx, "write">>}
    /\ prev' = [prev EXCEPT ![filename] = [st |-> "failed", out |-> result_lines]]
    /\ Return(FALSE)
    /\ UNCHANGED <<disk, cond, args, idx, exit_code, wopens>>

\* fixes were made, open(filename, 'w') truncated the file, and the write
\* raises IOError with only part of the new content on disk
WriteIOError ==
    /\ LoopFinished
    /\ NeedsWrite(fixes_made)
    /\ cond[filename] = "full"
    /\ LET new == WriteLines(result_lines)
       IN  \E k \in 0..(Len(new) - 1) :
             disk' = [disk EXCEPT ![filename] = SubSeq(new, 1, k)]
    /\ wopens' = [wopens EXCEPT ![filename] = @ + 1]
    /\ stdout' = Append(stdout, Msg("error_writing", filename, 0))
    /\ failures' = failures \cup {<<idx, "write">>}
    /\ prev' = [prev EXCEPT ![filename] = [st |-> "failed", out |-> result_lines]]
    /\ Return(FALSE)
    /\ UNCHANGED <<cond, args, idx, exit_code>>

\* no fix was made: the file is not opened again
NoWrite ==
    /\ LoopFinished
    /\ ~NeedsWrite(fixes_made)
    /\ stdout' = Append(stdout, Msg("no_issues", filename, 0))
    /\ prev' = [prev EXCEPT ![filename] = [st |-> "ok", out |-> result_lines]]
    /\ Return(TRUE)
    /\ UNCHANGED <<disk, cond, args, idx, exit_code, wopens, failures>>

Next ==
    \/ MainNext
    \/ MainExit
    \/ ReadOk
    \/ ReadIOError
    \/ ReadDecodeError
    \/ LineStep
    \/ WriteOk
    \/ WriteOpenError
    \/ WriteIOError
    \/ NoWrite

Spec == Init /\ [][Next]_vars

TypeOK ==
    /\ pc \in {"main", "read", "loop", "done", "crashed"}
    /\ idx \in 0..Len(args)
    /\ success \in BOOLEAN
    /\ exit_code \in {-1, 0, 1}
    /\ inside_code_block \in BOOLEAN
    /\ fixes_made \in 0..Len(lines)


(* ---------------- the vocabulary of the properties ---------------- *)
\* a bare fence: three backticks and nothing but blanks after them
BareLine(line) ==
    /\ Len(line) >= 3
    /\ SubSeq(line, 1, 3) = Fence
    /\ \A i \in 4..Len(line) : IsSpace(line[i])

\* a tagged fence: three backticks and then a tag character
TaggedLine(line) ==
    /\ Len(line) >= 4
    /\ SubSeq(line, 1, 3) = Fence
    /\ line[4] \in TagChars

SetMax(S) == CHOOSE m \in S : \A x \in S : x <= m

\* the tracker state in which line i of ls is met, without running the
\* tracker: after the last tagged fence an even number of bare fences leaves
\* it inside; with no tagged fence an odd number does
InsideBefore(ls, i) ==
    LET tagged == {j \in 1..(i - 1) : TaggedLine(ls[j])}
        last == IF tagged = {} THEN 0 ELSE SetMax(tagged)
        n == Cardinality({j \in (last + 1)..(i - 1) : BareLine(ls[j])})
    IN  IF last = 0 THEN n % 2 = 1 ELSE n % 2 = 0

\* the positions of the bare fences met outside a block
OpeningBare(ls) ==
    {i \in 1..Len(ls) : BareLine(ls[i]) /\ ~InsideBefore(ls, i)}

\* the positions where the output differs from the input
Replaced ==
    {i \in 1..Len(lines) : i > Len(result_lines) \/ result_lines[i] # lines[i]}

\* the messages of the pass in progress: those after the last "analyzing"
PassStart ==
    SetMax({i \in 1..Len(stdout) : stdout[i].k = "analyzing"} \cup {0})

FixMessages == {i \in (PassStart + 1)..Len(stdout) : stdout[i].k = "line"}

Terminated == pc \in {"done", "crashed"}

(* ---------------- C1 ---------------- *)
\* C1: when the loop over a document has finished, the lines that were
\* replaced are exactly the bare fences met outside a block, fixes_made is
\* their number, and the line numbers logged are exactly their 1-based
\* positions, each logged once; the count printed after the write is that
\* number too.
C1_State ==
    LoopFinished =>
        /\ Replaced = OpeningBare(lines)
        /\ fixes_made = Cardinality(OpeningBare(lines))
        /\ {stdout[i].n : i \in FixMessages} = OpeningBare(lines)
        /\ Cardinality(FixMessages) = Cardinality(OpeningBare(lines))

C1_Step ==
    WriteOk =>
        stdout'[Len(stdout')] =
            Msg("fixed", filename, Cardinality(OpeningBare(lines)))

C1_FixesAreOpeningBareFences == [](C1_State) /\ [][C1_Step]_vars

\* a finished pass with two replacements and a closing fence between them
C1_Witness ==
    /\ LoopFinished
    /\ Len(lines) = 3
    /\ OpeningBare(lines) = {1, 3}
    /\ fixes_made = 2

(* ---------------- C2 ---------------- *)
\* C2: a pass over a file whose content is the output of the previous pass
\* over it reads that output back, leaves every line as it is and makes
\* zero fixes, and so ends without opening the file for writing.
C2_State ==
    (LoopFinished /\ prev[filename].st = "ok") =>
        /\ lines = prev[filename].out
        /\ result_lines = lines
        /\ fixes_made = 0

C2_Step ==
    (LoopFinished /\ prev[filename].st = "ok") =>
        /\ disk' = disk
        /\ wopens' = wopens

C2_Idempotent == [](C2_State) /\ [][C2_Step]_vars

\* the second pass over a file that the first pass rewrote
C2_Witness ==
    /\ LoopFinished
    /\ prev[filename].st = "ok"
    /\ wopens[filename] = 1
    /\ Len(lines) >= 2
    /\ \E i \in 1..Len(lines) : BareLine(lines[i])


(* ---------------- C3 ---------------- *)
HasMessage(k, f) == \E i \in 1..Len(stdout) : stdout[i].k = k /\ stdout[i].f = f

\* C3: every file that could not be read (missing, no permission, not
\* decodable) has an error reported for it, and when the run has ended every
\* file of the argument list has been taken by the loop of main.
\* The code contradicts it: a decoding failure ends the run on the spot.
C3_UnreadableSkippedRestProcessed ==
    /\ \A fl \in failures :
         fl[2] \in {"read", "decode"} =>
             HasMessage("error_reading", args[fl[1]])
             \/ HasMessage("traceback", args[fl[1]])
    /\ Terminated => idx = Len(args)

(* ---------------- C4 ---------------- *)
\* C4: when the run has ended, its exit code is 0 exactly when no file of
\* the argument list failed to be read or written, and 1 otherwise, wherever
\* the failing file stands in the list; with exit code 0 every file was taken.
C4_ExitCode ==
    Terminated =>
        /\ exit_code \in {0, 1}
        /\ (exit_code = 0) <=> (failures = {})
        /\ (exit_code = 0) => idx = Len(args)

\* a run that ended with exit code 1 although the file after the failing one
\* was processed without failure
C4_Witness ==
    /\ pc = "done"
    /\ exit_code = 1
    /\ Len(args) >= 2
    /\ \E fl \in failures : fl[1] = 1
    /\ \A fl \in failures : fl[1] # Len(args)

(* ---------------- C5 ---------------- *)
\* C5: a pass that ends with zero fixes leaves the disk as it is, opens no
\* file for writing, prints the no-issues line and returns success (the
\* success flag and the failures are unchanged); and a document without a
\* bare fence always ends with zero fixes.
C5_State ==
    (LoopFinished /\ \A i \in 1..Len(lines) : ~BareLine(lines[i])) =>
        fixes_made = 0

C5_Step ==
    (LoopFinished /\ fixes_made = 0) =>
        /\ disk' = disk
        /\ wopens' = wopens
        /\ success' = success
        /\ failures' = failures
        /\ pc' = "main"
        /\ stdout' = Append(stdout, Msg("no_issues", filename, 0))

C5_NoOpOnCleanInput == [](C5_State) /\ [][C5_Step]_vars

\* a clean document with a tagged block has been processed and left alone
C5_Witness ==
    /\ pc = "main"
    /\ idx >= 1
    /\ stdout[Len(stdout)] = Msg("no_issues", args[idx], 0)
    /\ wopens[args[idx]] = 0
    /\ \E i \in 1..Len(prev[args[idx]].out) : TaggedLine(prev[args[idx]].out[i])

(* ---------------- C6 ---------------- *)
\* the lines of a file as they stand on disk, each with its own terminator
RECURSIVE RawSplit(_, _)
RawSplit(s, cur) ==
    IF s = <<>> THEN (IF cur = <<>> THEN <<>> ELSE <<cur>>)
    ELSE IF Head(s) = CR /\ Len(s) > 1 /\ s[2] = LF
         THEN <<cur \o <<CR, LF>> >> \o RawSplit(Tail(Tail(s)), <<>>)
         ELSE IF Head(s) \in {CR, LF}
              THEN <<Append(cur, Head(s))>> \o RawSplit(Tail(s), <<>>)
              ELSE RawSplit(Tail(s), Append(cur, Head(s)))

RawLines(bytes) == RawSplit(bytes, <<>>)

\* C6: during a pass the output holds exactly one line for every input line
\* taken so far, so a finished pass has as many output lines as input lines;
\* and a rewritten file has as many lines as it had before.
C6_State ==
    pc = "loop" =>
        /\ Len(result_lines) = CurIndex - 1
        /\ LoopFinished => Len(result_lines) = Len(lines)

C6_Step ==
    WriteOk =>
        /\ Len(ReadLines(disk'[filename])) = Len(lines)
        /\ Len(RawLines(disk'[filename])) = Len(RawLines(disk[filename]))

C6_LengthPreserved == [](C6_State) /\ [][C6_Step]_vars

\* a three-line document with a closing fence has been rewritten
C6_Witness ==
    /\ pc = "main"
    /\ idx >= 1
    /\ wopens[args[idx]] = 1
    /\ prev[args[idx]].st = "ok"
    /\ Len(prev[args[idx]].out) = 3
    /\ BareLine(prev[args[idx]].out[3])

Terminator(raw) ==
    IF Len(raw) >= 2 /\ SubSeq(raw, Len(raw) - 1, Len(raw)) = <<CR, LF>>
    THEN <<CR, LF>>
    ELSE IF raw # <<>> /\ raw[Len(raw)] \in {CR, LF} THEN <<raw[Len(raw)]>>
         ELSE <<>>

Body(raw) == SubSeq(raw, 1, Len(raw) - Len(Terminator(raw)))

\* C8: in a rewritten file every line, a replaced one included, ends with
\* the terminator it had before, and a replaced line is the three backticks
\* followed by plaintext and nothing else.
\* The code contradicts it: the replacement always ends in "\n", and reading
\* and writing in text mode turn every "\r\n" into "\n".
C8_Step ==
    WriteOk =>
        LET old == RawLines(disk[filename])
            new == RawLines(disk'[filename])
        IN  /\ Len(new) = Len(old)
            /\ \A i \in 1..Len(old) :
                 /\ i <= Len(new) => Terminator(new[i]) = Terminator(old[i])
                 /\ (i <= Len(new) /\ i \in OpeningBare(lines)) =>
                        Body(new[i]) = SubSeq(PlaintextLine, 1, 12)

C8_TagExactTerminatorsKept == [][C8_Step]_vars

(* ---------------- C9 ---------------- *)
\* C9: a write failure is reported for its file, makes the run a failure and
\* leaves the log and the other files as they are; and the run goes on: when
\* it has ended every file of the argument list has been taken and finished.
\* The code contradicts the last part: see C3, an undecodable file after the
\* write failure ends the run before the files that follow it.
C9_State ==
    \A fl \in failures :
        fl[2] = "write" =>
            /\ HasMessage("error_writing", args[fl[1]])
            /\ ~success
            /\ Terminated => (idx = Len(args) /\ exit_code = 1)

C9_Step ==
    (WriteOpenError \/ WriteIOError) =>
        /\ SubSeq(stdout', 1, Len(stdout)) = stdout
        /\ FixMessages # {}
        /\ \A g \in Files : g # filename => disk'[g] = disk[g]
        /\ pc' = "main"

C9_WriteFailureContained == [](C9_State) /\ [][C9_Step]_vars

(* ---------------- C10 ---------------- *)
\* C10: a step that takes a bare fence while inside_code_block is set
\* appends the line as it is, logs nothing, leaves fixes_made as it is and
\* clears inside_code_block.
C10_Step ==
    (pc = "loop" /\ CurIndex <= Len(lines) /\ BareLine(lines[CurIndex])
        /\ inside_code_block) =>
        /\ result_lines' = Append(result_lines, lines[CurIndex])
        /\ fixes_made' = fixes_made
        /\ stdout' = stdout
        /\ inside_code_block' = FALSE

C10_BareFenceInsideCloses == [][C10_Step]_vars

\* a closing fence that followed a tagged fence has just been taken
C10_Witness ==
    /\ pc = "loop"
    /\ CurIndex >= 3
    /\ CurIndex - 1 <= Len(lines)
    /\ BareLine(lines[CurIndex - 1])
    /\ InsideBefore(lines, CurIndex - 1)
    /\ \E j \in 1..(CurIndex - 2) : TaggedLine(lines[j])
    /\ result_lines[CurIndex - 1] = lines[CurIndex - 1]
    /\ ~inside_code_block


(* ---------------- C11 ---------------- *)
\* no fence of either kind strictly between positions i and j of ls
OnlyOrdinaryBetween(ls, i, j) ==
    \A k \in (i + 1)..(j - 1) : ~TaggedLine(ls[k]) /\ ~BareLine(ls[k])

\* C11: a step that takes a tagged fence sets inside_code_block whatever it
\* was, appends the line as it is, logs nothing and counts no fix; and a
\* bare fence that follows a tagged fence with only ordinary lines between
\* them is in the output as it was in the input.
C11_State ==
    pc = "loop" =>
        \A i, j \in 1..Len(result_lines) :
            (/\ i < j
             /\ j <= Len(lines)
             /\ TaggedLine(lines[i])
             /\ BareLine(lines[j])
             /\ OnlyOrdinaryBetween(lines, i, j)) =>
                result_lines[j] = lines[j]

C11_Step ==
    (pc = "loop" /\ CurIndex <= Len(lines) /\ TaggedLine(lines[CurIndex])) =>
        /\ inside_code_block' = TRUE
        /\ result_lines' = Append(result_lines, lines[CurIndex])
        /\ fixes_made' = fixes_made
        /\ stdout' = stdout

C11_TaggedFenceOpens == [](C11_State) /\ [][C11_Step]_vars

\* a tagged fence was met inside a block (after a replaced opening fence)
\* and the bare fence after it was kept
C11_Witness ==
    /\ LoopFinished
    /\ Len(lines) = 3
    /\ 1 \in OpeningBare(lines)
    /\ TaggedLine(lines[2])
    /\ result_lines[2] = lines[2]
    /\ BareLine(lines[3])
    /\ result_lines[3] = lines[3]

(* ---------------- C12 ---------------- *)
\* what a pass over ls yields, from ls alone
ExpectedOutput(ls) ==
    [i \in 1..Len(ls) |-> IF i \in OpeningBare(ls) THEN PlaintextLine ELSE ls[i]]

\* the tracker state after the whole of ls
InsideAfter(ls) == InsideBefore(ls, Len(ls) + 1)

\* C12: every pass takes its first line outside a block, with zero fixes and
\* an empty output, and the output and fix count of a finished pass are
\* functions of the lines of that file alone, whatever was processed before.
C12_PerFileReset ==
    /\ (pc = "loop" /\ CurIndex = 1) =>
           /\ ~inside_code_block
           /\ fixes_made = 0
           /\ result_lines = <<>>
    /\ LoopFinished =>
           /\ result_lines = ExpectedOutput(lines)
           /\ fixes_made = Cardinality(OpeningBare(lines))

\* the file before this one ended inside an unclosed block and the first
\* line of this one, a bare fence, was still replaced
C12_Witness ==
    /\ LoopFinished
    /\ idx >= 2
    /\ args[idx - 1] # filename
    /\ prev[args[idx - 1]].out # <<>>
    /\ InsideAfter(prev[args[idx - 1]].out)
    /\ 1 \in OpeningBare(lines)
    /\ result_lines[1] = PlaintextLine

(* ---------------- C13 ---------------- *)
\* the positions in stdout of the "Processing:" lines
Announcements == {i \in 1..Len(stdout) : stdout[i].k = "processing"}

\* C13: the files are announced in argument order, one announcement for
\* each file taken; the success flag never goes back to TRUE; and the run
\* ends only after the last file was taken, every file taken exactly once.
\* The code contradicts the last part: see C3, an undecodable file ends the
\* run with status 1 before the files after it are taken.
C13_State ==
    /\ Cardinality(Announcements) = idx
    /\ \A i \in Announcements :
         stdout[i].f = args[Cardinality({j \in Announcements : j <= i})]
    /\ Terminated => idx = Len(args)

C13_Step == (~success) => (~success')

C13_SequentialOnceEach == [](C13_State) /\ [][C13_Step]_vars

(* ---------------- C14 ---------------- *)
\* C14: between any two replaced lines there is a bare fence that was left
\* as it is, and twice the fix count is at most the number of bare fences
\* taken so far plus one.
C14_ClosingBetweenReplacements ==
    pc = "loop" =>
        LET done == 1..Len(result_lines)
            rep == {i \in done : i <= Len(lines) /\ result_lines[i] # lines[i]}
            bare == {i \in done : i <= Len(lines) /\ BareLine(lines[i])}
        IN  /\ \A i, j \in rep :
                 i < j => \E k \in bare : i < k /\ k < j /\ result_lines[k] = lines[k]
            /\ 2 * fixes_made <= Cardinality(bare) + 1

\* two replacements around a closing fence that carries a trailing blank
C14_Witness ==
    /\ LoopFinished
    /\ Len(lines) = 3
    /\ fixes_made = 2
    /\ lines[2] = Fence \o <<SP, LF>>
    /\ result_lines[2] = lines[2]
    /\ result_lines[3] = PlaintextLine

(* ---------------- C15 ---------------- *)
\* how many times the rewriting of f was completed in this run
Rewrites(f) ==
    Cardinality({i \in 1..Len(stdout) : stdout[i].k = "fixed" /\ stdout[i].f = f})

\* C15: a step that opens a file for writing or changes the disk happens
\* only when the pass has an output line for every input line, opens only
\* the file of the pass, once, and ends the pass; a pass whose read failed
\* ends without opening or changing any file; and no file is rewritten to
\* completion more than once in a run.
C15_State == \A f \in Files : Rewrites(f) <= 1

C15_Step ==
    /\ (wopens' # wopens \/ disk' # disk) =>
           /\ pc = "loop"
           /\ Len(result_lines) = Len(lines)
           /\ line_num = FirstLineNum + Len(lines)
           /\ pc' = "main"
           /\ wopens'[filename] = wopens[filename] + 1
           /\ \A g \in Files :
                g # filename => (disk'[g] = disk[g] /\ wopens'[g] = wopens[g])
    /\ (pc = "read" /\ pc' # "read" /\ pc' # "loop") =>
           /\ pc' \in {"main", "crashed"}
           /\ disk' = disk
           /\ wopens' = wopens

C16_OutputKeepsStates ==
    pc = "loop" =>
        /\ inside_code_block = InsideBefore(lines, CurIndex)
        /\ Len(result_lines) <= Len(lines)
        /\ \A i \in 1..(Len(result_lines) + 1) :
             InsideBefore(result_lines, i) = InsideBefore(lines, i)
        /\ OpeningBare(result_lines) = {}

\* a finished pass whose output holds a replaced fence and, inside the
\* block it opens, a bare closing fence
C16_Witness ==
    /\ LoopFinished
    /\ fixes_made = 1
    /\ result_lines # lines
    /\ \E i \in 2..Len(result_lines) :
         BareLine(result_lines[i]) /\ InsideBefore(result_lines, i)

====
